---- MODULE Spec2Model ----
(***************************************************************************)
(* Model of the two scripts of the repository:                             *)
(*   convert_to_tflite.py  (the transcoder: convert, else fall back to     *)
(*                          copying the ONNX file)                         *)
(*   convert_vad.py        (the inspector: load, print, copy)              *)
(* The state is the file system the scripts act on and the position of the *)
(* one run in progress.  Every statement with an effect on the file system *)
(* or on the control flow is one action.                                   *)
(*                                                                         *)
(* A path is a sequence of tokens ("silero_vad", ".onnx", ...); directory  *)
(* components are the tokens of DirTokens.  The substrings the scripts     *)
(* search for ('.tflite', '.onnx') occur in the paths of the model only as *)
(* whole tokens, so str.replace is replacement of tokens.  File contents   *)
(* are sequences of blocks; the byte size of a file is its length.         *)
(***************************************************************************)
EXTENDS Integers, Sequences, FiniteSets, TLC

VARIABLES
    fs,            \* path -> [exists, bytes]: the regular files
    dirs,          \* the directories that exist (<<>> is the working directory)
    pc,            \* position of the run in progress
    script,        \* "transcoder", "inspector" (the two __main__ blocks) or "call"
    input_path,    \* argument of convert_to_tflite / inspect_model
    output_path,   \* argument of convert_to_tflite; local of inspect_model
    fault,         \* what the conversion step of this run does (see Faults)
    session,       \* the model held by the InferenceSession
    tflite_model,  \* the bytes converter.convert() returned
    result,        \* outcome of the run
    exitCode,      \* process exit status, -1 while the run is in progress
    startFs,       \* history: fs when the run started
    startDirs,     \* history: dirs when the run started
    trace,         \* history: the statements this run has executed
    prev           \* history: the previous finished run

vars == <<fs, dirs, pc, script, input_path, output_path, fault, session,
          tflite_model, result, exitCode, startFs, startDirs, trace, prev>>

----------------------------------------------------------------------------
(* Bounds *)

\* longest source file, in blocks
MaxLen == 2

----------------------------------------------------------------------------
(* Paths *)

DirTokens == {"speech_world/", "assets/", "models/"}

input_file == <<"silero_vad", ".onnx">>

output_file == <<"silero_vad", ".tflite">>

final_output == <<"speech_world/", "assets/", "models/", "silero_vad", ".onnx">>

\* str.replace(old, new): every occurrence of the token old becomes new
RECURSIVE Replace(_, _, _)
Replace(s, old, new) ==
    IF s = <<>> THEN <<>>
    ELSE (IF Head(s) = old THEN new ELSE <<Head(s)>>) \o Replace(Tail(s), old, new)

\* os.path.dirname: the path up to and including its last directory component
RECURSIVE Dirname(_)
Dirname(p) ==
    IF p = <<>> THEN <<>>
    ELSE IF p[Len(p)] \in DirTokens THEN p
    ELSE Dirname(SubSeq(p, 1, Len(p) - 1))

\* onnx_output = output_path.replace('.tflite', '.onnx')
OnnxOutput(out) == Replace(out, ".tflite", <<".onnx">>)

\* output_path = input_path.replace('.onnx', '_model.onnx')
InspectOutput(inp) == Replace(inp, ".onnx", <<"_model", ".onnx">>)

\* the arguments convert_to_tflite is called with, besides those of __main__
InputPaths == {input_file, final_output}

OutputPaths == {output_file, <<"model", ".tflite">>, input_file}

Paths ==
    InputPaths \cup OutputPaths \cup {final_output}
        \cup {OnnxOutput(o) : o \in OutputPaths}
        \cup {InspectOutput(input_file)}

----------------------------------------------------------------------------
(* Files *)

NoFile == [exists |-> FALSE, bytes |-> <<>>]

File(b) == [exists |-> TRUE, bytes |-> b]

Exists(f, p) == f[p].exists

\* what silero_vad.onnx may hold before the first run: nothing, or a header
\* block (an ONNX graph header, or something else) and graph blocks
SourceContents ==
    {<<>>} \cup {<<h>> \o [i \in 1..k |-> "g"] : h \in {"onnx", "other"}, k \in 0..(MaxLen - 1)}

\* InferenceSession accepts a file that starts with an ONNX graph header
ValidOnnx(b) == Len(b) >= 1 /\ b[1] = "onnx"

\* converter.convert(): the flatbuffer of the graph, never empty
TFLiteOf(b) == <<"TFL3">> \o Tail(b)

Min(a, b) == IF a < b THEN a ELSE b

\* shutil.copy(src, dst) raises: missing source, same file, missing directory
CopyRaisesNoSameFile(f, d, src, dst) ==
    \/ ~Exists(f, src)
    \/ Dirname(dst) \notin d

CopyRaises(f, d, src, dst) ==
    \/ ~Exists(f, src)
    \/ src = dst
    \/ Dirname(dst) \notin d

\* shutil.copy(src, dst): dst is opened for writing (truncated), then the
\* bytes of src are read and written to it
CopyFile(f, src, dst) ==
    LET opened == [f EXCEPT ![dst] = File(<<>>)]
    IN  [opened EXCEPT ![dst] = File(opened[src].bytes)]

\* os.makedirs(d, exist_ok=True)
Makedirs(d, target) == d \cup {SubSeq(target, 1, k) : k \in 1..Len(target)}

----------------------------------------------------------------------------
(* What the conversion step of a run does: it succeeds, the build/convert  *)
(* calls raise, or the write of the converted bytes raises after `flushed` *)
(* blocks reached the file.                                                *)

Faults ==
    {[at |-> "none", flushed |-> 0], [at |-> "convert", flushed |-> 0]}
        \cup {[at |-> "write", flushed |-> n] : n \in 0..(MaxLen - 1)}

NoRun == [repeat |-> FALSE, fs |-> [p \in Paths |-> NoFile], dirs |-> {}, result |-> "none"]

\* what a run that repeats the run just finished (same arguments, same
\* behaviour of the conversion step) remembers of it
Finished(inp, out, f) ==
    IF /\ pc = "done"
       /\ script \in {"transcoder", "call"}
       /\ input_path = inp
       /\ output_path = out
       /\ fault = f
    THEN [repeat |-> TRUE, fs |-> fs, dirs |-> dirs, result |-> result]
    ELSE NoRun

----------------------------------------------------------------------------

Init ==
    /\ \E src \in {NoFile} \cup {File(b) : b \in SourceContents},
          asset \in {NoFile, File(<<"onnx">>)} :
          /\ fs = [p \in Paths |->
                      IF p = input_file THEN src
                      ELSE IF p = final_output THEN asset
                      ELSE NoFile]
          /\ dirs = IF asset.exists THEN Makedirs({<<>>}, Dirname(final_output)) ELSE {<<>>}
    /\ pc = "idle"
    /\ script = "none"
    /\ input_path = <<>>
    /\ output_path = <<>>
    /\ fault = [at |-> "none", flushed |-> 0]
    /\ session = <<>>
    /\ tflite_model = <<>>
    /\ result = "none"
    /\ exitCode = -1
    /\ startFs = fs
    /\ startDirs = dirs
    /\ trace = <<>>
    /\ prev = NoRun

\* a new process: nothing of the previous run survives but the file system
Begin(s, inp, out, f, at) ==
    /\ script' = s
    /\ input_path' = inp
    /\ output_path' = out
    /\ fault' = f
    /\ session' = <<>>
    /\ tflite_model' = <<>>
    /\ result' = "none"
    /\ exitCode' = -1
    /\ startFs' = fs
    /\ startDirs' = dirs
    /\ trace' = <<>>
    /\ prev' = IF s = "inspector" THEN NoRun ELSE Finished(inp, out, f)
    /\ pc' = at
    /\ UNCHANGED <<fs, dirs>>

\* python convert_to_tflite.py
RunTranscoder ==
    /\ pc \in {"idle", "done"}
    /\ \E f \in Faults : Begin("transcoder", input_file, output_file, f, "main")

\* python convert_vad.py
RunInspector ==
    /\ pc \in {"idle", "done"}
    /\ Begin("inspector", input_file, <<>>, [at |-> "none", flushed |-> 0], "main")

\* convert_to_tflite(input_path, output_path) called with other arguments
CallConvert ==
    /\ pc \in {"idle", "done"}
    /\ \E inp \in InputPaths, out \in OutputPaths, f \in Faults :
          /\ <<inp, out>> # <<input_file, output_file>>
          /\ Begin("call", inp, out, f, "load")

\* an exception nothing catches ends the process with status 1
Uncaught(label) ==
    /\ result' = "Uncaught"
    /\ exitCode' = 1
    /\ pc' = "done"
    /\ trace' = Append(trace, label)

\* if not os.path.exists(input_file): print(...); sys.exit(1)
MainCheckInverted ==
    /\ pc = "main"
    /\ IF Exists(fs, input_path)
       THEN /\ result' = "NotFound"
            /\ exitCode' = 1
            /\ pc' = "done"
            /\ trace' = Append(trace, "not_found")
       ELSE /\ pc' = "load"
            /\ trace' = Append(trace, "main")
            /\ UNCHANGED <<result, exitCode>>
    /\ UNCHANGED <<fs, dirs, script, input_path, output_path, fault, session,
                   tflite_model, startFs, startDirs, prev>>

MainCheck ==
    /\ pc = "main"
    /\ IF ~Exists(fs, input_path)
       THEN /\ result' = "NotFound"
            /\ exitCode' = 1
            /\ pc' = "done"
            /\ trace' = Append(trace, "not_found")
       ELSE /\ pc' = "load"
            /\ trace' = Append(trace, "main")
            /\ UNCHANGED <<result, exitCode>>
    /\ UNCHANGED <<fs, dirs, script, input_path, output_path, fault, session,
                   tflite_model, startFs, startDirs, prev>>

\* session = InferenceSession(input_path), outside the try block
LoadModel ==
    /\ pc = "load"
    /\ script \in {"transcoder", "call"}
    /\ IF Exists(fs, input_path) /\ ValidOnnx(fs[input_path].bytes)
       THEN /\ session' = fs[input_path].bytes
            /\ pc' = "convert"
            /\ trace' = Append(trace, "load")
            /\ UNCHANGED <<result, exitCode>>
       ELSE /\ Uncaught("load!")
            /\ UNCHANGED session
    /\ UNCHANGED <<fs, dirs, script, input_path, output_path, fault,
                   tflite_model, startFs, startDirs, prev>>

\* try: wrapper = ...; wrapper.build(...); tflite_model = converter.convert()
Convert ==
    /\ pc = "convert"
    /\ IF fault.at = "convert"
       THEN /\ pc' = "except"
            /\ trace' = Append(trace, "convert!")
            /\ UNCHANGED tflite_model
       ELSE /\ tflite_model' = TFLiteOf(session)
            /\ pc' = "open"
            /\ trace' = Append(trace, "convert")
    /\ UNCHANGED <<fs, dirs, script, input_path, output_path, fault, session,
                   result, exitCode, startFs, startDirs, prev>>

\* with open(output_path, 'wb') as f:
OpenOutputAppend ==
    /\ pc = "open"
    /\ IF Dirname(output_path) \notin dirs
       THEN /\ pc' = "except"
            /\ trace' = Append(trace, "open!")
            /\ UNCHANGED fs
       ELSE /\ fs' = [fs EXCEPT ![output_path] = File(fs[output_path].bytes)]
            /\ pc' = "write"
            /\ trace' = Append(trace, "open")
    /\ UNCHANGED <<dirs, script, input_path, output_path, fault, session,
                   tflite_model, result, exitCode, startFs, startDirs, prev>>

OpenOutput ==
    /\ pc = "open"
    /\ IF Dirname(output_path) \notin dirs
       THEN /\ pc' = "except"
            /\ trace' = Append(trace, "open!")
            /\ UNCHANGED fs
       ELSE /\ fs' = [fs EXCEPT ![output_path] = File(<<>>)]
            /\ pc' = "write"
            /\ trace' = Append(trace, "open")
    /\ UNCHANGED <<dirs, script, input_path, output_path, fault, session,
                   tflite_model, result, exitCode, startFs, startDirs, prev>>

\* f.write(tflite_model) at the end of what the file holds since it was
\* opened; print(...); print(... os.path.getsize(output_path) ...)
WriteOutputThenFallback ==
    /\ pc = "write"
    /\ fs' = [fs EXCEPT ![output_path] = File(fs[output_path].bytes \o tflite_model)]
    /\ pc' = "copy_sibling"
    /\ trace' = Append(trace, "write")
    /\ UNCHANGED <<dirs, script, input_path, output_path, fault, session,
                   tflite_model, result, exitCode, startFs, startDirs, prev>>

WriteOutputNothing ==
    /\ pc = "write"
    /\ IF fault.at = "write"
       THEN /\ pc' = "except"
            /\ trace' = Append(trace, "write!")
            /\ UNCHANGED <<result, exitCode>>
       ELSE /\ result' = "Converted"
            /\ exitCode' = 0
            /\ pc' = "done"
            /\ trace' = Append(trace, "write")
    /\ UNCHANGED <<fs, dirs, script, input_path, output_path, fault, session,
                   tflite_model, startFs, startDirs, prev>>

WriteOutput ==
    /\ pc = "write"
    /\ IF fault.at = "write"
       THEN /\ fs' = [fs EXCEPT ![output_path] =
                        File(fs[output_path].bytes
                             \o SubSeq(tflite_model, 1,
                                       Min(fault.flushed, Len(tflite_model) - 1)))]
            /\ pc' = "except"
            /\ trace' = Append(trace, "write!")
            /\ UNCHANGED <<result, exitCode>>
       ELSE /\ fs' = [fs EXCEPT ![output_path] = File(fs[output_path].bytes \o tflite_model)]
            /\ result' = "Converted"
            /\ exitCode' = 0
            /\ pc' = "done"
            /\ trace' = Append(trace, "write")
    /\ UNCHANGED <<dirs, script, input_path, output_path, fault, session,
                   tflite_model, startFs, startDirs, prev>>

\* except Exception as e: print(...); print(...)
ExceptHandler ==
    /\ pc = "except"
    /\ pc' = "copy_sibling"
    /\ trace' = Append(trace, "except")
    /\ UNCHANGED <<fs, dirs, script, input_path, output_path, fault, session,
                   tflite_model, result, exitCode, startFs, startDirs, prev>>

\* onnx_output = output_path.replace(...); shutil.copy(input_path, onnx_output)
CopySiblingSwallows ==
    /\ pc = "copy_sibling"
    /\ IF CopyRaises(fs, dirs, input_path, OnnxOutput(output_path))
       THEN /\ trace' = Append(trace, "copy_sibling!")
            /\ UNCHANGED fs
       ELSE /\ fs' = CopyFile(fs, input_path, OnnxOutput(output_path))
            /\ trace' = Append(trace, "copy_sibling")
    /\ pc' = "makedirs"
    /\ UNCHANGED <<dirs, script, input_path, output_path, fault, session,
                   tflite_model, result, exitCode, startFs, startDirs, prev>>

CopySibling ==
    /\ pc = "copy_sibling"
    /\ IF CopyRaises(fs, dirs, input_path, OnnxOutput(output_path))
       THEN /\ Uncaught("copy_sibling!")
            /\ UNCHANGED fs
       ELSE /\ fs' = CopyFile(fs, input_path, OnnxOutput(output_path))
            /\ pc' = "makedirs"
            /\ trace' = Append(trace, "copy_sibling")
            /\ UNCHANGED <<result, exitCode>>
    /\ UNCHANGED <<dirs, script, input_path, output_path, fault, session,
                   tflite_model, startFs, startDirs, prev>>

\* os.makedirs(os.path.dirname(final_output), exist_ok=True)
MakeAssetDirs ==
    /\ pc = "makedirs"
    /\ dirs' = Makedirs(dirs, Dirname(final_output))
    /\ pc' = "copy_final"
    /\ trace' = Append(trace, "makedirs")
    /\ UNCHANGED <<fs, script, input_path, output_path, fault, session,
                   tflite_model, result, exitCode, startFs, startDirs, prev>>

\* shutil.copy(input_path, final_output); print(...)
CopyFinal ==
    /\ pc = "copy_final"
    /\ IF CopyRaises(fs, dirs, input_path, final_output)
       THEN /\ Uncaught("copy_final!")
            /\ UNCHANGED fs
       ELSE /\ fs' = CopyFile(fs, input_path, final_output)
            /\ result' = "FallbackCopied"
            /\ exitCode' = 0
            /\ pc' = "done"
            /\ trace' = Append(trace, "copy_final")
    /\ UNCHANGED <<dirs, script, input_path, output_path, fault, session,
                   tflite_model, startFs, startDirs, prev>>

\* inspect_model: session = InferenceSession(input_path) and the prints
InspectLoad ==
    /\ pc = "load"
    /\ script = "inspector"
    /\ IF Exists(fs, input_path) /\ ValidOnnx(fs[input_path].bytes)
       THEN /\ session' = fs[input_path].bytes
            /\ pc' = "inspect_copy"
            /\ trace' = Append(trace, "load")
            /\ UNCHANGED <<result, exitCode>>
       ELSE /\ Uncaught("load!")
            /\ UNCHANGED session
    /\ UNCHANGED <<fs, dirs, script, input_path, output_path, fault,
                   tflite_model, startFs, startDirs, prev>>

\* inspect_model: output_path = ...; shutil.copy(input_path, output_path)
InspectCopy ==
    /\ pc = "inspect_copy"
    /\ output_path' = InspectOutput(input_path)
    /\ IF CopyRaises(fs, dirs, input_path, InspectOutput(input_path))
       THEN /\ Uncaught("inspect_copy!")
            /\ UNCHANGED fs
       ELSE /\ fs' = CopyFile(fs, input_path, InspectOutput(input_path))
            /\ result' = "Inspected"
            /\ exitCode' = 0
            /\ pc' = "done"
            /\ trace' = Append(trace, "inspect_copy")
    /\ UNCHANGED <<dirs, script, input_path, fault, session,
                   tflite_model, startFs, startDirs, prev>>

Next ==
    \/ RunTranscoder
    \/ RunInspector
    \/ CallConvert
    \/ MainCheck
    \/ LoadModel
    \/ Convert
    \/ OpenOutput
    \/ WriteOutput
    \/ ExceptHandler
    \/ CopySibling
    \/ MakeAssetDirs
    \/ CopyFinal
    \/ InspectLoad
    \/ InspectCopy

Spec == Init /\ [][Next]_vars

----------------------------------------------------------------------------
(* Shorthands for the properties *)

Did(label) == \E i \in 1..Len(trace) : trace[i] = label

ConvertRun == script \in {"transcoder", "call"}

HardCoded == script \in {"transcoder", "inspector"}

SourceValidAtStart == Exists(startFs, input_path) /\ ValidOnnx(startFs[input_path].bytes)

----------------------------------------------------------------------------
(* C1 *)

\* C1 (as claimed): when convert_to_tflite finishes on a valid source,
\* converted or fallen back, a file of size > 0 exists at output_path.
C1_OutputAlwaysAtRequestedPath ==
    (pc = "done" /\ ConvertRun /\ SourceValidAtStart
        /\ result \in {"Converted", "FallbackCopied"})
    => (Exists(fs, output_path) /\ Len(fs[output_path].bytes) > 0)

\* C1 (amended): when convert_to_tflite finishes with the conversion step
\* succeeded, a file of size > 0 exists at output_path.
C1_ConvertedOutputNonEmpty ==
    (pc = "done" /\ ConvertRun /\ result = "Converted")
    => (Exists(fs, output_path) /\ Len(fs[output_path].bytes) > 0)

C1_Witness ==
    /\ pc = "done" /\ ConvertRun /\ result = "Converted"
    /\ SourceValidAtStart
    /\ ~Exists(startFs, output_path)

----------------------------------------------------------------------------
(* C2 *)

\* C2: the transcoder script, on a valid model whose conversion step raises,
\* ends in FallbackCopied with a copy identical to the source both at the
\* sibling path and at speech_world/assets/models/silero_vad.onnx.
C2_HardCodedFallbackCopies ==
    (pc = "done" /\ script = "transcoder" /\ SourceValidAtStart /\ Did("except"))
    => /\ result = "FallbackCopied"
       /\ fs[OnnxOutput(output_file)] = startFs[input_file]
       /\ fs[final_output] = startFs[input_file]

----------------------------------------------------------------------------
(* C3 *)

\* C3: if the try block raises, the exception is caught, the result is
\* FallbackCopied and never Converted, and the fallback destinations hold
\* exactly the bytes of the source file.
C3_TryFailureEndsFallbackCopied ==
    (pc = "done" /\ ConvertRun /\ Did("except"))
    => /\ result = "FallbackCopied"
       /\ fs[OnnxOutput(output_path)] = fs[input_path]
       /\ fs[final_output] = fs[input_path]

----------------------------------------------------------------------------
(* C4 *)

\* C4: in both scripts, when silero_vad.onnx is missing at start the run
\* reports not-found and exits with status 1 before the model is loaded, and
\* creates or writes no file and no directory.
C4_MissingSourceExitsUntouched ==
    (HardCoded /\ ~Exists(startFs, input_file))
    => /\ pc \in {"main", "done"}
       /\ fs = startFs
       /\ dirs = startDirs
       /\ ~Did("load") /\ ~Did("load!")
       /\ pc = "done" => (result = "NotFound" /\ exitCode = 1)

C4_Witness ==
    /\ pc = "done" /\ script = "inspector"
    /\ ~Exists(startFs, input_file)
    /\ result = "NotFound"

----------------------------------------------------------------------------
(* C5 *)

\* C5: whenever silero_vad.onnx exists at start, the transcoder script ends
\* with exit code 0 and no exception leaves it.
C5_OnlyMissingSourceIsFatal ==
    (pc = "done" /\ script = "transcoder" /\ Exists(startFs, input_file))
    => (exitCode = 0 /\ result # "Uncaught")

----------------------------------------------------------------------------
(* C6 *)

\* C6 (as claimed): a second run with the same arguments and the same
\* behaviour of the conversion step completes like the first and leaves
\* every file with the bytes it held after the first.
C6_Idempotent ==
    (pc = "done" /\ prev.repeat)
    => (fs = prev.fs /\ dirs = prev.dirs /\ result = prev.result)

\* C6 (amended): the same, when output_path is not input_path.
C6_IdempotentDistinctPaths ==
    (pc = "done" /\ prev.repeat /\ output_path # input_path)
    => (fs = prev.fs /\ dirs = prev.dirs /\ result = prev.result)

C6_Witness ==
    /\ pc = "done" /\ prev.repeat /\ output_path # input_path
    /\ result = "FallbackCopied"
    /\ prev.result = "FallbackCopied"
    /\ fs[OnnxOutput(output_path)] = fs[input_path]

----------------------------------------------------------------------------
(* C7 *)

\* C7: a run whose conversion step succeeds writes only output_path; the
\* sibling path and the asset directory are touched only after the except
\* branch was entered.
C7_SuccessWritesOnlyOutput ==
    /\ (ConvertRun /\ ~Did("except"))
        => /\ \A p \in Paths \ {output_path} : fs[p] = startFs[p]
           /\ dirs = startDirs
    /\ (ConvertRun /\ Did("write"))
        => /\ pc = "done" /\ result = "Converted"
           /\ ~Did("except")
           /\ fs[output_path] = File(tflite_model)

C7_Witness ==
    /\ pc = "done" /\ ConvertRun /\ result = "Converted"
    /\ OnnxOutput(output_path) # output_path
    /\ fs[output_path] # startFs[output_path]
    /\ ~Exists(fs, final_output)

----------------------------------------------------------------------------
(* C8 *)

\* C8: no run both creates the file at output_path and performs the
\* fallback copies.
C8_OutcomesExclusive ==
    ConvertRun => ~(Did("open") /\ Did("copy_sibling"))

----------------------------------------------------------------------------
(* C9 *)

\* C9: no step of a run of either script with the hard-coded names changes
\* the bytes of silero_vad.onnx.
C9_SourceUntouched ==
    [][HardCoded' => fs'[input_file] = fs[input_file]]_vars

C9_Witness ==
    /\ pc = "done" /\ script = "transcoder"
    /\ Did("copy_sibling!")
    /\ OnnxOutput(output_path) = input_path
    /\ Exists(fs, input_file) /\ fs[input_file] = startFs[input_file]

----------------------------------------------------------------------------
(* C10 *)

\* C10: in the fallback branch the sibling copy comes before the asset
\* directory is created and before the asset copy; if the sibling copy
\* raises, the asset directory is not created, the asset copy is not made
\* and the error leaves convert_to_tflite.
C10_SiblingCopyFirst ==
    /\ \A i \in 1..Len(trace) :
          trace[i] \in {"makedirs", "copy_final", "copy_final!"}
              => \E j \in 1..(i - 1) : trace[j] = "copy_sibling"
    /\ Did("copy_sibling!")
        => /\ pc = "done" /\ result = "Uncaught"
           /\ ~Did("makedirs") /\ ~Did("copy_final") /\ ~Did("copy_final!")
           /\ dirs = startDirs
           /\ fs[final_output] = startFs[final_output]

C10_Witness ==
    /\ pc = "done" /\ Did("except") /\ Did("copy_sibling!")
    /\ ~Exists(fs, final_output)

====
